---------------------------- MODULE Spec2Model ----------------------------
(* A model of BibManager (src/src/bib/bibManager.ts): the per-document     *)
(* resolution cache, the scope (bibliography lookup + engine) a resolve    *)
(* pass uses, the global bibliography/engine set up by reinit, and the     *)
(* style and locale caches.                                                *)
(*                                                                         *)
(* Abstractions.  A text is the sequence of citation groups the tokenizer  *)
(* finds in it; a group is the sequence of its cited ids and its position  *)
(* in the text is its index.  A bibliography is the set of ids it holds.   *)
(* A style or locale document is its id.  The outcome of the I/O helpers   *)
(* (style fetch, locale fetch, bibliography conversion) is decided by the  *)
(* environment variable fault, which stays until the environment changes   *)
(* it: "fetch" makes the style and locale fetches fail, "bib" the          *)
(* bibliography conversion and the Zotero request.                         *)
(* Whether the style engine raises an error is open in each pass.          *)
EXTENDS Integers, Sequences, FiniteSets, TLC

----------------------------------------------------------------------------
(* Bounds and domains *)

MaxBgLoads == 1

CacheMax == 10

Docs == {"d1"}

None == "none"

DefaultStyle == "apa"
DefaultLang == "en-US"
AltStyle == "nobib"
AltLang == "fr"
AltBibPath == "alt.bib"

GlobalBib == {"a"}
AltBib == {"b"}

Texts ==
  { << >>,
    << <<"a">> >>,
    << <<"a">>, <<"b">> >>,
    << <<"a", "b">> >> }

Faults == {"none", "fetch", "bib"}

FmChoices ==
  { [present |-> FALSE, bibliography |-> None, style |-> None, lang |-> None],
    [present |-> TRUE, bibliography |-> None, style |-> AltStyle, lang |-> None],
    [present |-> TRUE, bibliography |-> AltBibPath, style |-> None, lang |-> None],
    [present |-> TRUE, bibliography |-> AltBibPath, style |-> AltStyle, lang |-> AltLang] }

Configs ==
  { [pullFromZotero |-> FALSE, hasSource |-> TRUE, stylePath |-> None],
    [pullFromZotero |-> TRUE, hasSource |-> TRUE, stylePath |-> None] }

----------------------------------------------------------------------------
VARIABLES
  cfg,          \* plugin.settings: fixed during a behaviour
  frontmatter,  \* per document: the frontmatter the metadata cache reports
  fault,        \* environment: which external operation currently fails
  initResolved, \* this.initPromise is resolved
  styleCache,   \* keys of this.styleCache
  langCache,    \* keys of this.langCache
  bibCache,     \* keys of this.bibCache (the global bibliography lookup)
  engine,       \* this.engine
  fileCache,    \* this.fileCache: document -> entry
  lru,          \* recency order of this.fileCache, least recent first
  bgLoads,      \* detached getLangAndStyle calls still in flight
  citeKeyCache, \* per document: its editor, if open, and citeKeyCacheField
  sched,        \* getReferenceList and reinit calls in flight, and the
                \* identity of initPromise
  last          \* history: the resolve pass that has just completed

vars == <<cfg, frontmatter, fault, initResolved, styleCache, langCache,
          bibCache, engine, fileCache, lru, bgLoads, citeKeyCache, sched,
          last>>

----------------------------------------------------------------------------
(* Values *)

Range(s) == {s[i] : i \in DOMAIN s}

\* A rendered bibliography is a DOM object: obj is its identity, 0 for null.
\* Identities are kept apart only as far as the model compares them: a new
\* object differs from the one the document's cache entry holds.
NullBib == [obj |-> 0, ids |-> {}]

NewObj(cachedDoc) ==
  IF cachedDoc.present /\ cachedDoc.bib.obj = 1 THEN 2 ELSE 1

NullSettings == [null |-> TRUE, bibliography |-> None, style |-> None, lang |-> None]

NoEngine == [built |-> FALSE, style |-> None, lang |-> None]

ThisSource == [kind |-> "this", bib |-> {}, engine |-> NoEngine]

\* this.fuse, the manager's search index, as an object.
ThisFuse == [kind |-> "this"]

NoEntry == [present |-> FALSE]

NoPass == [valid |-> FALSE]

\* No markdown editor shows the document / one does, its field still null.
NoEditor == [open |-> FALSE, value |-> NoEntry]

NewEditor == [open |-> TRUE, value |-> NoEntry]

MaxCalls == 2

MaxPromises == 2

MaxReinits == 2

CallIds == 1..MaxCalls

\* A getReferenceList call not yet made.
NoCall ==
  [pc |-> "idle", file |-> None, content |-> << >>, awaits |-> 0,
   cachedDoc |-> NoEntry, settings |-> NullSettings, overlap |-> {},
   during |-> {},
   result |-> NoEntry]

MaxLoads == 3

LoadIds == 1..MaxLoads

\* A loadStyles or loadLangs call not yet made.
NoLoad == [pc |-> "idle", kind |-> None, id |-> None]

\* No call in flight; initPromise is the constructor's, numbered 0.  A
\* reinit in progress is named by the number of the promise it created.
NoCalls ==
  [calls |-> [c \in CallIds |-> NoCall], promise |-> 0, settled |-> {},
   reinits |-> {}, loads |-> [l \in LoadIds |-> NoLoad]]


----------------------------------------------------------------------------
(* Frontmatter and scope settings *)

\* Frontmatter values that are empty once trimmed.
Blank == {"", " "}

\* A value with white space around it.
Padded(v) ==
  CASE v = AltBibPath -> " alt.bib "
    [] v = AltStyle -> " nobib "
    [] v = AltLang -> " fr "

\* A frontmatter value taken as it is written.
TrimKeep(v) ==
  v

\* String.prototype.trim on the values a frontmatter field takes here.
Trim(v) ==
  CASE v \in Blank -> ""
    [] v = " alt.bib " -> AltBibPath
    [] v = " nobib " -> AltStyle
    [] v = " fr " -> AltLang
    [] OTHER -> v

\* frontmatter.<key>?.trim() || undefined
Declared(raw) ==
  IF raw = None THEN None
  ELSE IF Trim(raw) = "" THEN None ELSE Trim(raw)

\* getScopedSettings: null without frontmatter or when no field is set.
getScopedSettings(fm) ==
  IF ~fm.present THEN NullSettings
  ELSE IF /\ Declared(fm.bibliography) = None
          /\ Declared(fm.style) = None
          /\ Declared(fm.lang) = None
       THEN NullSettings
       ELSE [null |-> FALSE, bibliography |-> Declared(fm.bibliography),
             style |-> Declared(fm.style), lang |-> Declared(fm.lang)]

\* cachedDoc?.settings?.<field>: undefined without an entry or with null
\* settings.
CachedField(cachedDoc, field) ==
  IF cachedDoc.present THEN cachedDoc.settings[field] ELSE None

\* A comparison of the settings objects by identity: only two absent settings
\* objects compare equal.
areSettingsEqualByIdentity(settings, cachedDoc) ==
  /\ cachedDoc.present
  /\ settings.null
  /\ cachedDoc.settings.null

areSettingsEqual(settings, cachedDoc) ==
  /\ settings.bibliography = CachedField(cachedDoc, "bibliography")
  /\ settings.style = CachedField(cachedDoc, "style")
  /\ settings.lang = CachedField(cachedDoc, "lang")

----------------------------------------------------------------------------
(* External helpers (src/bib/helpers): outcome decided by the fault flag *)

\* getCSLStyle: fetches the style and memoizes it under explicitPath ?? id.
getCSLStyle(sc, id, path, flt) ==
  IF flt = "fetch" THEN [ok |-> FALSE, cache |-> sc]
  ELSE [ok |-> TRUE, cache |-> sc \cup {IF path # None THEN path ELSE id}]

\* getCSLLocale: fetches one locale and memoizes it under its id.
getCSLLocale(lc, lang, flt) ==
  IF flt = "fetch" THEN [ok |-> FALSE, cache |-> lc]
  ELSE [ok |-> TRUE, cache |-> lc \cup {lang}]

\* bibToCSL: converts the bibliography file at a path to its entries.
bibToCSL(path, flt) ==
  IF flt = "bib" THEN [ok |-> FALSE, bib |-> {}]
  ELSE [ok |-> TRUE, bib |-> IF path = AltBibPath THEN AltBib ELSE GlobalBib]

\* getZBib: the entries of the configured Zotero groups.
getZBib(flt) ==
  IF flt = "bib" THEN [ok |-> FALSE, bib |-> {}]
  ELSE [ok |-> TRUE, bib |-> GlobalBib]

----------------------------------------------------------------------------
(* Style and locale loading *)

\* The locales a style document names (locale="..." attributes): none here.
StyleLocales(style) == {}

extractRawLocales(style, localeName) ==
  {DefaultLang} \cup (IF localeName # None THEN {localeName} ELSE {})
                \cup StyleLocales(style)

\* loadStyles([{id, explicitPath}]): fresh holds the styles fetched by this call.
loadStyles(sc, id, path, flt) ==
  LET key == IF path # None THEN path ELSE id
  IN IF key \in sc
     THEN [ok |-> TRUE, cache |-> sc, fresh |-> {}]
     ELSE LET r == getCSLStyle(sc, id, path, flt)
          IN [ok |-> r.ok, cache |-> r.cache,
              fresh |-> IF r.ok THEN {key} ELSE {}]

\* loadLangs(langs): undefined members are skipped, cached ones not fetched.
loadLangs(lc, langs, flt) ==
  LET missing == (langs \ {None}) \ lc
  IN IF missing = {} THEN [ok |-> TRUE, cache |-> lc]
     ELSE IF \E l \in missing : ~getCSLLocale(lc, l, flt).ok
          THEN [ok |-> FALSE, cache |-> lc]
          ELSE [ok |-> TRUE, cache |-> lc \cup missing]

\* getLangAndStyle after its style step: st is what loadStyles answered.
getLangAndStyleLocales(lc, lang, id, flt, st) ==
  IF ~st.ok THEN [failed |-> TRUE, sc |-> st.cache, lc |-> lc]
  ELSE LET l == loadLangs(lc,
                          IF st.fresh # {} THEN extractRawLocales(id, lang)
                                           ELSE {lang},
                          flt)
       IN [failed |-> ~l.ok, sc |-> st.cache, lc |-> l.cache]

\* getLangAndStyle(lang, {id, explicitPath}): both failures are caught and
\* answered with this.initPromise.resolve().
getLangAndStyle(sc, lc, lang, id, path, flt) ==
  getLangAndStyleLocales(lc, lang, id, flt,
                         IF id \in sc
                         THEN [ok |-> TRUE, cache |-> sc, fresh |-> {}]
                         ELSE loadStyles(sc, id, path, flt))

\* The outcomes of new CSL.Engine(sys, styleCache.get(style), lang): with the
\* style document absent from the cache the constructor gets undefined.
BuildOutcomes(style, sc) ==
  IF style \in sc THEN {"ok"} ELSE {"ok", "throw"}

buildEngine(lang, style) ==
  [built |-> TRUE, style |-> style, lang |-> lang]

----------------------------------------------------------------------------
(* loadScopedEngine(settings): the scope of one resolve pass.  Every caught *)
(* failure returns this, the manager itself, as the scope.  The steps are   *)
(* written last to first; each takes what the step before it produced.      *)

\* catch (e) { console.error(e); return this; }
ScopeFallback(sc, lc, mgr) ==
  [threw |-> FALSE, source |-> ThisSource, sc |-> sc, lc |-> lc,
   built |-> FALSE, fuse |-> ThisFuse, mgr |-> mgr]

\* The buildEngine call and the returned scope.
ScopeBuild(style, lang, sc, lc, own, outcome) ==
  IF outcome = "throw" /\ "throw" \in BuildOutcomes(style, sc)
  THEN [threw |-> TRUE, source |-> ThisSource, sc |-> sc, lc |-> lc,
        built |-> TRUE, fuse |-> ThisFuse, mgr |-> own.mgr]
  ELSE [threw |-> FALSE,
        source |-> [kind |-> "scoped", bib |-> own.bibCache,
                    engine |-> buildEngine(lang, style)],
        sc |-> sc, lc |-> lc, built |-> TRUE, fuse |-> own.fuse,
        mgr |-> own.mgr]

\* let bibCache = this.bibCache; let fuse = this.fuse: without an override
\* bibliography the scope shares the manager's map and index.
SharedBibCache(mgr) ==
  [bibCache |-> mgr.bibCache, fuse |-> ThisFuse, mgr |-> mgr]

\* An override bibliography written into the manager's own map and index.
OwnBibCacheInPlace(mgr, bib) ==
  [bibCache |-> bib, fuse |-> ThisFuse,
   mgr |-> [mgr EXCEPT !.bibCache = bib, !.fuse = [kind |-> "scoped"]]]

\* bibCache = new Map(); ...; fuse = new Fuse(bib, fuseSettings): the local
\* names are rebound, the manager's fields are not written.
OwnBibCache(mgr, bib) ==
  [bibCache |-> bib, fuse |-> [kind |-> "scoped"], mgr |-> mgr]

\* After the bibliography step: bb is what bibToCSL answered.
ScopeBibliography(settings, sc, lc, mgr, outcome, bb) ==
  IF ~bb.ok THEN ScopeFallback(sc, lc, mgr)
  ELSE ScopeBuild(IF settings.style # None THEN settings.style
                                           ELSE DefaultStyle,
                  IF settings.lang # None THEN settings.lang ELSE DefaultLang,
                  sc, lc,
                  IF settings.bibliography # None
                  THEN OwnBibCache(mgr, bb.bib)
                  ELSE SharedBibCache(mgr),
                  outcome)

\* After the locale step: lg is what loadLangs answered.
ScopeLang(settings, sc, mgr, flt, outcome, lg) ==
  IF ~lg.ok THEN ScopeFallback(sc, lg.cache, mgr)
  ELSE ScopeBibliography(settings, sc, lg.cache, mgr, outcome,
                         IF settings.bibliography # None
                         THEN bibToCSL(settings.bibliography, flt)
                         ELSE [ok |-> TRUE, bib |-> mgr.bibCache])

\* After the style step: st is what loadStyles answered.
ScopeStyle(settings, lc, mgr, flt, outcome, st) ==
  IF ~st.ok THEN ScopeFallback(st.cache, lc, mgr)
  ELSE ScopeLang(settings, st.cache, mgr, flt, outcome,
                 IF settings.lang # None
                 THEN loadLangs(lc,
                                IF st.fresh # {}
                                THEN extractRawLocales(settings.style,
                                                       settings.lang)
                                ELSE {settings.lang},
                                flt)
                 ELSE [ok |-> TRUE, cache |-> lc])

loadScopedEngine(settings, sc, lc, mgr, flt, outcome) ==
  IF settings.null THEN ScopeFallback(sc, lc, mgr)
  ELSE ScopeStyle(settings, lc, mgr, flt, outcome,
                  IF settings.style # None
                  THEN loadStyles(sc, settings.style, settings.style, flt)
                  ELSE [ok |-> TRUE, cache |-> sc, fresh |-> {}])

----------------------------------------------------------------------------
(* Citation groups, classification and rendering *)

\* getCitationSegments + getCitations: the groups of a text, in source order.
Processed(content) ==
  [i \in DOMAIN content |->
     [ids |-> content[i], from |-> 2 * i - 1, to |-> 2 * i]]

\* The set of all distinct cited ids (citeKeys).
CiteKeys(processed) ==
  UNION {Range(processed[i].ids) : i \in DOMAIN processed}

\* A filter that keeps a group when some member resolves.
GroupResolvesSome(group, bib) ==
  \E k \in DOMAIN group.ids : group.ids[k] \in bib

\* s.citations.every(c => source.bibCache.has(c.id))
GroupResolves(group, bib) ==
  \A k \in DOMAIN group.ids : group.ids[k] \in bib

\* The ids every() visits in a group: it stops after the first unresolved one.
Visited(group, bib) ==
  {group.ids[k] : k \in {n \in DOMAIN group.ids :
                            \A j \in 1..(n - 1) : group.ids[j] \in bib}}

AllVisited(processed, bib) ==
  UNION {Visited(processed[i], bib) : i \in DOMAIN processed}

\* processed.filter(...): the groups handed to the engine.
Filtered(processed, bib) ==
  SelectSeq(processed, LAMBDA g : GroupResolves(g, bib))

\* resolvedKeys / unresolvedKeys after the citeKeys loop and the filter loop.
ResolvedKeys(processed, bib) ==
  (CiteKeys(processed) \cap bib) \cup (AllVisited(processed, bib) \cap bib)

UnresolvedKeys(processed, bib) ==
  (CiteKeys(processed) \ bib) \cup (AllVisited(processed, bib) \ bib)

\* Whether a style renders citations as footnotes.
UsesNotes(style) == style = AltStyle

\* cite(engine, groups): one rendered citation per group, in order; its text
\* depends on the engine's style and locale.
cite(eng, groups) ==
  [i \in DOMAIN groups |->
     [ids |-> groups[i].ids, from |-> groups[i].from, to |-> groups[i].to,
      val |-> <<eng.style, eng.lang>>,
      noteIndex |-> IF UsesNotes(eng.style) THEN i ELSE 0,
      note |-> IF UsesNotes(eng.style) THEN <<"note", groups[i].ids>>
                                       ELSE None]]

\* Whether a style has a bibliography section.
HasBibliography(style) == style # AltStyle

\* engine.makeBibliography(): false for a style without a bibliography
\* section, else one entry per item the rendered citations registered.
makeBibliography(eng, citations) ==
  IF HasBibliography(eng.style)
  THEN [some |-> TRUE,
        entries |-> UNION {Range(citations[i].ids) : i \in DOMAIN citations}]
  ELSE [some |-> FALSE, entries |-> {}]

----------------------------------------------------------------------------
(* The LRU order of this.fileCache *)

LruTouch(order, f) == SelectSeq(order, LAMBDA x : x # f) \o <<f>>

\* A lookup that leaves the recency order alone.
LruPeek(order, cache, f) ==
  order

\* fileCache.get(f): a hit makes f the most recently used.
LruGet(order, cache, f) ==
  IF cache[f].present THEN LruTouch(order, f) ELSE order

\* fileCache.set(f, v): f becomes the most recently used; beyond max the least
\* recently used entry is dropped.
LruSetOrder(order, f) ==
  LET t == LruTouch(order, f)
  IN IF Len(t) > CacheMax THEN Tail(t) ELSE t

LruSetCache(order, cache, f, v) ==
  LET t == LruTouch(order, f)
  IN [d \in DOMAIN cache |->
        IF d = f THEN v
        ELSE IF Len(t) > CacheMax /\ d = Head(t) THEN NoEntry
        ELSE cache[d]]

----------------------------------------------------------------------------
(* getReferenceList(file, content): one resolve pass *)

SourceEngine(source) ==
  IF source.kind = "this" THEN engine ELSE source.engine

SourceBib(source) ==
  IF source.kind = "this" THEN bibCache ELSE source.bib

\* The result object setNull builds: the key sets are whatever they hold at
\* the time of the call.
setNullResult(citeKeys, resolvedKeys, unresolvedKeys, source) ==
  [present |-> TRUE, keys |-> citeKeys, resolvedKeys |-> resolvedKeys,
   unresolvedKeys |-> unresolvedKeys, bib |-> NullBib, citations |-> << >>,
   settings |-> NullSettings, source |-> source]

\* A comparison of the rendered citations by identity: a fresh array never
\* equals the cached one.
ChangeSuppressedByIdentity(cachedDoc, citations, settingsEqual) ==
  /\ cachedDoc.present
  /\ FALSE
  /\ settingsEqual

\* The change-suppression test of a pass.
ChangeSuppressed(cachedDoc, citations, settingsEqual) ==
  /\ cachedDoc.present
  /\ cachedDoc.citations = citations
  /\ settingsEqual

\* Whether a pass takes its scope from the cache entry.
ReuseSource(cachedDoc, settingsEqual) ==
  cachedDoc.present /\ settingsEqual

\* What one pass does, as a record: how it ended, what it returned, the entry
\* it stored (if any), the caches after it, and which collaborators it called.
\* The steps are written last to first.

\* From the no-engine test to the end of the pass.
ResolveResult(outcome, cachedDoc, settings, eq, reuse, processed, ls, eng, bib, citations) ==
  LET citeKeys == CiteKeys(processed)
      filtered == Filtered(processed, bib)
      mb == makeBibliography(eng, citations)
      base == [outcome |-> "returned", path |-> "empty", ret |-> NullBib,
               store |-> FALSE, entry |-> NoEntry, sc |-> ls.sc, lc |-> ls.lc,
               read |-> TRUE, loaded |-> ~reuse, built |-> ls.built,
               loadFailed |-> (~reuse /\ ~settings.null /\ ~ls.built),
               citeCalled |-> FALSE, bibCalled |-> FALSE, rendered |-> << >>,
               scopeBib |-> bib, mgr |-> ls.mgr]
  IN IF ls.threw
     THEN [base EXCEPT !.outcome = "threw", !.path = "buildThrew",
                       !.scopeBib = {}]
     ELSE IF ~eng.built
     THEN [base EXCEPT !.path = "noEngine", !.store = TRUE,
                       !.entry = setNullResult(citeKeys, {}, {}, ls.source)]
     ELSE IF outcome = "citeThrow"
     THEN [base EXCEPT !.outcome = "threw", !.path = "citeThrew",
                       !.citeCalled = TRUE, !.rendered = filtered]
     ELSE IF ChangeSuppressed(cachedDoc, citations, eq)
     THEN [base EXCEPT !.path = "suppressed", !.ret = cachedDoc.bib,
                       !.citeCalled = TRUE, !.rendered = filtered]
     ELSE IF outcome = "bibThrow"
     THEN [base EXCEPT !.outcome = "threw", !.path = "bibThrew",
                       !.citeCalled = TRUE, !.bibCalled = TRUE,
                       !.rendered = filtered]
     ELSE IF ~mb.some
     THEN [base EXCEPT !.path = "emptyBib", !.store = TRUE,
                       !.entry = setNullResult(citeKeys,
                                               ResolvedKeys(processed, bib),
                                               UnresolvedKeys(processed, bib),
                                               ls.source),
                       !.citeCalled = TRUE, !.bibCalled = TRUE,
                       !.rendered = filtered]
     ELSE [base EXCEPT !.path = "stored", !.store = TRUE,
                       !.ret = IF mb.entries # {}
                               THEN [obj |-> NewObj(cachedDoc),
                                     ids |-> mb.entries]
                               ELSE NullBib,
                       !.entry = [present |-> TRUE, keys |-> citeKeys,
                                  resolvedKeys |-> ResolvedKeys(processed, bib),
                                  unresolvedKeys |->
                                    UnresolvedKeys(processed, bib),
                                  bib |-> IF mb.entries # {}
                                          THEN [obj |-> NewObj(cachedDoc),
                                                ids |-> mb.entries]
                                          ELSE NullBib,
                                  citations |-> citations,
                                  settings |-> settings,
                                  source |-> ls.source],
                       !.citeCalled = TRUE, !.bibCalled = TRUE,
                       !.rendered = filtered]

\* The manager's own lookup, engine and search index, as loadScopedEngine
\* finds them.
Manager == [bibCache |-> bibCache, engine |-> engine, fuse |-> ThisFuse]

\* With the scope of the pass: ls is the cached scope or what loadScopedEngine
\* answered.
ResolveScoped(outcome, cachedDoc, settings, eq, reuse, processed, ls) ==
  ResolveResult(outcome, cachedDoc, settings, eq, reuse, processed, ls,
                SourceEngine(ls.source), SourceBib(ls.source),
                cite(SourceEngine(ls.source),
                     Filtered(processed, SourceBib(ls.source))))

\* With the settings comparison: eq is areSettingsEqual, reuse whether the
\* scope is taken from the cache entry.
ResolveCompared(outcome, cachedDoc, settings, eq, reuse, processed) ==
  ResolveScoped(outcome, cachedDoc, settings, eq, reuse, processed,
                IF reuse
                THEN [threw |-> FALSE, source |-> cachedDoc.source,
                      sc |-> styleCache, lc |-> langCache, built |-> FALSE,
                      fuse |-> ThisFuse, mgr |-> Manager]
                ELSE loadScopedEngine(settings, styleCache, langCache,
                                      Manager, fault, outcome))

\* The pass over a text that cites something.
ResolveCiting(outcome, cachedDoc, settings, processed) ==
  ResolveCompared(outcome, cachedDoc, settings,
                  areSettingsEqual(settings, cachedDoc),
                  ReuseSource(cachedDoc, areSettingsEqual(settings, cachedDoc)),
                  processed)

ResolvePass(f, content, outcome) ==
  IF Len(Processed(content)) = 0
  THEN [outcome |-> "returned", path |-> "empty", ret |-> NullBib,
        store |-> FALSE, entry |-> NoEntry, sc |-> styleCache,
        lc |-> langCache, read |-> FALSE, loaded |-> FALSE, built |-> FALSE,
        loadFailed |-> FALSE, citeCalled |-> FALSE, bibCalled |-> FALSE,
        rendered |-> << >>, scopeBib |-> {}, mgr |-> Manager]
  ELSE ResolveCiting(outcome, fileCache[f], getScopedSettings(frontmatter[f]),
                     Processed(content))

\* What the engine may do in a pass: "throw" is the constructor raising in
\* buildEngine, "citeThrow" and "bibThrow" the engine raising in cite and in
\* makeBibliography.  A pass takes an outcome other than "ok" only if it
\* reaches the call that raises.
Outcomes == {"ok", "throw", "citeThrow", "bibThrow"}

OutcomeUsed(outcome, path) ==
  \/ outcome = "ok"
  \/ outcome = "throw" /\ path = "buildThrew"
  \/ outcome = "citeThrow" /\ path = "citeThrew"
  \/ outcome = "bibThrow" /\ path = "bibThrew"

\* Whether a pass repeats the pass before it: the same document and text,
\* with nothing in between.
Repeats(f, content) ==
  last.valid /\ ~last.edited /\ last.file = f /\ last.content = content

\* A field that ignores the effects of a transaction.
citeKeyCacheKeep(state, effects) ==
  state

\* citeKeyCacheField.update(state, tr): the value of the last setCiteKeyCache
\* effect of the transaction, else the state as it was.
citeKeyCacheUpdate(state, effects) ==
  IF effects = << >> THEN state ELSE effects[Len(effects)]

\* dispatchResult(file, result): every markdown leaf showing the file gets a
\* transaction with the effect setCiteKeyCache.of(result).
dispatchResult(editors, f, result) ==
  [d \in DOMAIN editors |->
     IF d = f /\ editors[d].open
     THEN [open |-> TRUE,
           value |-> citeKeyCacheUpdate(editors[d].value, <<result>>)]
     ELSE editors[d]]

\* What a pass leaves behind: r is what the pass answered.
PassEffects(f, content, outcome, r) ==
  /\ OutcomeUsed(outcome, r.path)
  /\ styleCache' = r.sc
  /\ langCache' = r.lc
  /\ fileCache' = IF r.store
                  THEN LruSetCache(IF r.read THEN LruGet(lru, fileCache, f)
                                             ELSE lru,
                                   fileCache, f, r.entry)
                  ELSE fileCache
  /\ lru' = IF r.store THEN LruSetOrder(LruGet(lru, fileCache, f), f)
            ELSE IF r.read THEN LruGet(lru, fileCache, f)
            ELSE lru
  /\ citeKeyCache' = IF r.store
                     THEN dispatchResult(citeKeyCache, f, r.entry)
                     ELSE citeKeyCache
  /\ last' = [valid |-> TRUE, file |-> f, content |-> content,
              outcome |-> r.outcome, path |-> r.path, ret |-> r.ret,
              wrote |-> r.store, thisFuse |-> r.mgr.fuse,
              notified |-> IF r.store THEN r.entry ELSE NoEntry,
              loaded |-> r.loaded, built |-> r.built,
              loadFailed |-> r.loadFailed,
              citeCalled |-> r.citeCalled, bibCalled |-> r.bibCalled,
              repeat |-> Repeats(f, content), edited |-> FALSE]
  /\ bibCache' = r.mgr.bibCache
  /\ engine' = r.mgr.engine
  /\ UNCHANGED <<cfg, frontmatter, fault, initResolved, bgLoads>>

\* A call that overlaps no other call and no reinit.
ResolveCommit(f, content, outcome, r) ==
  /\ initResolved
  /\ PassEffects(f, content, outcome, r)
  /\ UNCHANGED sched

Resolve(f, content, outcome) ==
  ResolveCommit(f, content, outcome, ResolvePass(f, content, outcome))

----------------------------------------------------------------------------
(* reinit(clearCache) with loadGlobalZBib / loadGlobalBibFile *)

\* settings.cslStylePath || style: the id getLangAndStyle is called with.
GlobalStyleId ==
  IF cfg.stylePath # None THEN cfg.stylePath ELSE DefaultStyle

\* loadGlobalZBib after the awaited getLangAndStyle: g is what it answered.
loadGlobalZBibEngine(bib, g) ==
  [resolved |-> TRUE, bib |-> bib, sc |-> g.sc, lc |-> g.lc,
   engine |-> IF DefaultStyle \in g.sc
              THEN buildEngine(DefaultLang, DefaultStyle)
              ELSE engine,
   bg |-> 0]

\* loadGlobalZBib after the Zotero request: z is what getZBib answered.
loadGlobalZBibStyle(bib0, z) ==
  IF ~z.ok
  THEN [resolved |-> TRUE, bib |-> bib0, sc |-> styleCache, lc |-> langCache,
        engine |-> engine, bg |-> 0]
  ELSE loadGlobalZBibEngine(z.bib,
                            getLangAndStyle(styleCache, langCache, DefaultLang,
                                            GlobalStyleId, cfg.stylePath,
                                            fault))

\* A global load that starts from empty style and locale caches.
loadGlobalZBibClearing(bib0) ==
  [resolved |-> TRUE, bib |-> bib0, sc |-> {}, lc |-> {}, engine |-> engine,
   bg |-> 0]

\* loadGlobalZBib(true): awaits getLangAndStyle; never rejects.
loadGlobalZBib(bib0) ==
  IF ~cfg.hasSource
  THEN [resolved |-> TRUE, bib |-> bib0, sc |-> styleCache, lc |-> langCache,
        engine |-> engine, bg |-> 0]
  ELSE loadGlobalZBibStyle(bib0,
                           IF bib0 = {} THEN getZBib(fault)
                                        ELSE [ok |-> TRUE, bib |-> bib0])

\* Whether a getLangAndStyle call started now has anything to fetch.
NeedsFetch ==
  GlobalStyleId \notin styleCache \/ DefaultLang \notin langCache

\* loadGlobalBibFile after the conversion: b is what bibToCSL answered.
loadGlobalBibFileEngine(bib0, b) ==
  IF ~b.ok
  THEN [resolved |-> FALSE, bib |-> bib0, sc |-> styleCache, lc |-> langCache,
        engine |-> engine, bg |-> 0]
  ELSE [resolved |-> TRUE, bib |-> b.bib, sc |-> styleCache, lc |-> langCache,
        engine |-> IF DefaultStyle \in styleCache
                   THEN buildEngine(DefaultLang, DefaultStyle)
                   ELSE engine,
        bg |-> IF NeedsFetch THEN 1 ELSE 0]

\* loadGlobalBibFile(true): bibToCSL is awaited outside any try, and
\* getLangAndStyle is started without being awaited, so the style check that
\* follows sees the style cache as it was.
loadGlobalBibFile(bib0) ==
  IF ~cfg.hasSource
  THEN [resolved |-> TRUE, bib |-> bib0, sc |-> styleCache, lc |-> langCache,
        engine |-> engine, bg |-> 0]
  ELSE loadGlobalBibFileEngine(bib0,
                               IF bib0 = {} THEN bibToCSL(None, fault)
                                            ELSE [ok |-> TRUE, bib |-> bib0])

\* What reinit leaves behind: r is what the global load answered.
ReinitCommit(r) ==
  /\ bgLoads + r.bg <= MaxBgLoads
  /\ initResolved' = r.resolved
  /\ fileCache' = [d \in Docs |-> NoEntry]
  /\ lru' = << >>
  /\ bibCache' = r.bib
  /\ styleCache' = r.sc
  /\ langCache' = r.lc
  /\ engine' = r.engine
  /\ bgLoads' = bgLoads + r.bg
  /\ last' = NoPass
  /\ UNCHANGED <<cfg, frontmatter, fault, citeKeyCache, sched>>

Reinit(clearCache) ==
  ReinitCommit(IF cfg.pullFromZotero
               THEN loadGlobalZBib(IF clearCache THEN {} ELSE bibCache)
               ELSE loadGlobalBibFile(IF clearCache THEN {} ELSE bibCache))

\* What the detached getLangAndStyle leaves behind: g is what it answered.
BgLoadCommit(g) ==
  /\ bgLoads' = bgLoads - 1
  /\ styleCache' = g.sc
  /\ langCache' = g.lc
  /\ initResolved' = (initResolved \/ g.failed)
  /\ last' = NoPass
  /\ UNCHANGED <<cfg, frontmatter, fault, bibCache, engine, fileCache, lru,
                 citeKeyCache, sched>>

\* The detached getLangAndStyle of loadGlobalBibFile completes.
BgLoadFinish ==
  /\ bgLoads > 0
  /\ BgLoadCommit(getLangAndStyle(styleCache, langCache, DefaultLang,
                                  GlobalStyleId, cfg.stylePath, fault))

----------------------------------------------------------------------------
(* Environment *)

\* A frontmatter edit that changes the declared style override and nothing else.
StyleOnlyEdit(old, new) ==
  /\ getScopedSettings(old).style # getScopedSettings(new).style
  /\ getScopedSettings(old).bibliography = getScopedSettings(new).bibliography
  /\ getScopedSettings(old).lang = getScopedSettings(new).lang

\* The author edits a document's frontmatter.
EditFrontmatter(d, fm) ==
  /\ frontmatter[d] # fm
  /\ frontmatter' = [frontmatter EXCEPT ![d] = fm]
  /\ last' = IF /\ last.valid
                  /\ ~last.edited
                  /\ last.file = d
                  /\ StyleOnlyEdit(frontmatter[d], fm)
               THEN [last EXCEPT !.edited = TRUE]
               ELSE NoPass
  /\ UNCHANGED <<cfg, fault, initResolved, styleCache, langCache, bibCache,
                 engine, fileCache, lru, bgLoads, citeKeyCache, sched>>

\* An external operation starts or stops failing.  The history of the last
\* pass is kept only while nothing but one style-only frontmatter edit has
\* happened since.
SetFault(x) ==
  /\ fault # x
  /\ fault' = x
  /\ last' = NoPass
  /\ UNCHANGED <<cfg, frontmatter, initResolved, styleCache, langCache,
                 bibCache, engine, fileCache, lru, bgLoads, citeKeyCache, sched>>

----------------------------------------------------------------------------
Init ==
  /\ cfg \in Configs
  /\ frontmatter = [d \in Docs |->
       [present |-> FALSE, bibliography |-> None, style |-> None, lang |-> None]]
  /\ fault = "none"
  /\ initResolved = FALSE
  /\ styleCache = {}
  /\ langCache = {}
  /\ bibCache = {}
  /\ engine = NoEngine
  /\ fileCache = [d \in Docs |-> NoEntry]
  /\ lru = << >>
  /\ bgLoads = 0
  /\ citeKeyCache = [d \in Docs |-> NoEditor]
  /\ sched = NoCalls
  /\ last = NoPass

Next ==
  \/ \E f \in Docs, content \in Texts :
       \E outcome \in Outcomes : Resolve(f, content, outcome)
  \/ \E clearCache \in BOOLEAN : Reinit(clearCache)
  \/ BgLoadFinish
  \/ \E d \in Docs, fm \in FmChoices : EditFrontmatter(d, fm)
  \/ \E x \in Faults : SetFault(x)

Spec == Init /\ [][Next]_vars

----------------------------------------------------------------------------
(* The resolution cache under many documents.  Documents are numbered in    *)
(* the order of their first resolve; only the first MaxRevisited of them    *)
(* are resolved or read again, and only their text changes.  The manager    *)
(* starts as a reinit in Zotero mode leaves it.                             *)

MaxRevisited == 2

LruDocs == 1..(CacheMax + 2)

LruTexts == { << <<"a">> >>, << <<"a", "b">> >> }

\* The documents holding a cache entry.
Cached == {d \in DOMAIN fileCache : fileCache[d].present}

\* How many documents have been resolved so far.
Introduced ==
  IF lru = << >> THEN 0
  ELSE CHOOSE n \in Range(lru) : \A m \in Range(lru) : m <= n

\* getCacheForPath(filePath): has, then get, which makes the entry the most
\* recently used.
getCacheForPath(f) ==
  /\ initResolved
  /\ lru' = LruGet(lru, fileCache, f)
  /\ last' = [valid |-> FALSE, read |-> f]
  /\ UNCHANGED <<cfg, frontmatter, fault, initResolved, styleCache, langCache,
                 bibCache, engine, fileCache, bgLoads, citeKeyCache, sched>>

InitLru ==
  /\ cfg = [pullFromZotero |-> TRUE, hasSource |-> TRUE, stylePath |-> None]
  /\ frontmatter = [d \in LruDocs |->
       [present |-> FALSE, bibliography |-> None, style |-> None, lang |-> None]]
  /\ fault = "none"
  /\ initResolved = TRUE
  /\ styleCache = {DefaultStyle}
  /\ langCache = {DefaultLang}
  /\ bibCache = GlobalBib
  /\ engine = buildEngine(DefaultLang, DefaultStyle)
  /\ fileCache = [d \in LruDocs |-> NoEntry]
  /\ lru = << >>
  /\ bgLoads = 0
  /\ citeKeyCache = [d \in LruDocs |-> NoEditor]
  /\ sched = NoCalls
  /\ last = NoPass

NextLru ==
  \/ \E f \in LruDocs, content \in LruTexts :
       /\ f <= MaxRevisited \/ f = Introduced + 1
       /\ f > MaxRevisited => content = << <<"a">> >>
       /\ Resolve(f, content, "ok")
  \/ \E f \in 1..MaxRevisited : getCacheForPath(f)

SpecLru == InitLru /\ [][NextLru]_vars

----------------------------------------------------------------------------
(* The manager with the document open in a markdown editor, in Zotero mode  *)
(* and without failing helpers.                                             *)

InitNotify ==
  /\ cfg = [pullFromZotero |-> TRUE, hasSource |-> TRUE, stylePath |-> None]
  /\ frontmatter = [d \in Docs |->
       [present |-> FALSE, bibliography |-> None, style |-> None, lang |-> None]]
  /\ fault = "none"
  /\ initResolved = FALSE
  /\ styleCache = {}
  /\ langCache = {}
  /\ bibCache = {}
  /\ engine = NoEngine
  /\ fileCache = [d \in Docs |-> NoEntry]
  /\ lru = << >>
  /\ bgLoads = 0
  /\ citeKeyCache = [d \in Docs |-> NewEditor]
  /\ sched = NoCalls
  /\ last = NoPass

NextNotify ==
  \/ \E f \in Docs, content \in Texts :
       \E outcome \in Outcomes : Resolve(f, content, outcome)
  \/ \E clearCache \in BOOLEAN : Reinit(clearCache)
  \/ \E d \in Docs, fm \in FmChoices : EditFrontmatter(d, fm)

SpecNotify == InitNotify /\ [][NextNotify]_vars

----------------------------------------------------------------------------
(* The settings comparison of getReferenceList (lines 457, 467-470) over    *)
(* frontmatter as written: absent, blank, plain and padded values.          *)

RawValues(v) == {None, "", " ", v, Padded(v)}

RawFrontmatters ==
  { [present |-> FALSE, bibliography |-> None, style |-> None, lang |-> None] }
  \cup [present : {TRUE}, bibliography : RawValues(AltBibPath),
        style : RawValues(AltStyle), lang : RawValues(AltLang)]

\* Lines 457 and 467-470 alone: the settings of the document now, compared
\* with those of its cache entry.
CompareSettings(f) ==
  /\ initResolved
  /\ last' = [valid |-> FALSE, file |-> f,
              settings |-> getScopedSettings(frontmatter[f]),
              equal |-> areSettingsEqual(getScopedSettings(frontmatter[f]),
                                         fileCache[f])]
  /\ UNCHANGED <<cfg, frontmatter, fault, initResolved, styleCache, langCache,
                 bibCache, engine, fileCache, lru, bgLoads, citeKeyCache,
                 sched>>

InitSettings ==
  /\ cfg = [pullFromZotero |-> TRUE, hasSource |-> TRUE, stylePath |-> None]
  /\ frontmatter = [d \in Docs |->
       [present |-> FALSE, bibliography |-> None, style |-> None, lang |-> None]]
  /\ fault = "none"
  /\ initResolved = TRUE
  /\ styleCache = {DefaultStyle}
  /\ langCache = {DefaultLang}
  /\ bibCache = GlobalBib
  /\ engine = buildEngine(DefaultLang, DefaultStyle)
  /\ fileCache = [d \in Docs |-> NoEntry]
  /\ lru = << >>
  /\ bgLoads = 0
  /\ citeKeyCache = [d \in Docs |-> NoEditor]
  /\ sched = NoCalls
  /\ last = NoPass

NextSettings ==
  \/ \E d \in Docs, fm \in RawFrontmatters : EditFrontmatter(d, fm)
  \/ \E f \in Docs : Resolve(f, << <<"a">>, <<"b">> >>, "ok")
  \/ \E f \in Docs : CompareSettings(f)

SpecSettings == InitSettings /\ [][NextSettings]_vars

----------------------------------------------------------------------------
(* The read-only queries getResolution and getCitationsForSection over the  *)
(* entries that resolve stores.                                             *)

\* Paths asked about: the documents and a path that names no file.
QueryPaths == Docs \cup {"nofile"}

QueryKeys == {"a", "b", "z"}

\* mCache.sections of the document: nothing, one section ending inside the
\* second citation, or two sections with one citation each.
SectionLayouts ==
  { << >>,
    << [startLine |-> 0, endLine |-> 0, startOffset |-> 0, endOffset |-> 3] >>,
    << [startLine |-> 0, endLine |-> 0, startOffset |-> 0, endOffset |-> 2],
       [startLine |-> 1, endLine |-> 1, startOffset |-> 3, endOffset |-> 4] >> }

QueryLines == {<<0, 0>>, <<1, 1>>, <<0, 1>>}

\* The entry the query reads: null unless the path names a file with an entry.
QueryCache(path) ==
  IF path \in Docs THEN fileCache[path] ELSE NoEntry

\* A resolution that reports every cited key as unresolved.
ResolutionByKeys(cache, key) ==
  IF cache.present
  THEN [isResolved |-> key \in cache.resolvedKeys,
        isUnresolved |-> key \in cache.keys]
  ELSE [isResolved |-> FALSE, isUnresolved |-> FALSE]

\* What getResolution returns for the entry it found.
Resolution(cache, key) ==
  IF cache.present
  THEN [isResolved |-> key \in cache.resolvedKeys,
        isUnresolved |-> key \in cache.unresolvedKeys]
  ELSE [isResolved |-> FALSE, isUnresolved |-> FALSE]

getResolution(path, key) ==
  /\ lru' = IF path \in Docs THEN LruGet(lru, fileCache, path) ELSE lru
  /\ last' = [valid |-> FALSE, query |-> "resolution", path |-> path,
              key |-> key, result |-> Resolution(QueryCache(path), key)]
  /\ UNCHANGED <<cfg, frontmatter, fault, initResolved, styleCache, langCache,
                 bibCache, engine, fileCache, bgLoads, citeKeyCache, sched>>

\* mCache.sections?.find(...): the first section with the given lines.
FindSection(sections, lineStart, lineEnd) ==
  SelectSeq(sections, LAMBDA x : x.startLine = lineStart /\ x.endLine = lineEnd)

\* A filter that keeps every citation starting inside the section.
CitationsStartingIn(citations, section) ==
  SelectSeq(citations, LAMBDA c : /\ c.from >= section.startOffset
                                  /\ c.from <= section.endOffset)

\* cache.citations.filter(c => c.from >= startOffset && c.to <= endOffset)
CitationsIn(citations, section) ==
  SelectSeq(citations, LAMBDA c : /\ c.from >= section.startOffset
                                  /\ c.to <= section.endOffset)

\* What getCitationsForSection returns for the entry it found.
CitationsForSection(cache, sections, lineStart, lineEnd) ==
  IF ~cache.present THEN << >>
  ELSE IF FindSection(sections, lineStart, lineEnd) = << >> THEN << >>
  ELSE CitationsIn(cache.citations,
                   Head(FindSection(sections, lineStart, lineEnd)))

getCitationsForSection(path, sections, lineStart, lineEnd) ==
  /\ lru' = IF path \in Docs THEN LruGet(lru, fileCache, path) ELSE lru
  /\ last' = [valid |-> FALSE, query |-> "citations", path |-> path,
              sections |-> sections, lineStart |-> lineStart,
              lineEnd |-> lineEnd,
              result |-> CitationsForSection(QueryCache(path), sections,
                                             lineStart, lineEnd)]
  /\ UNCHANGED <<cfg, frontmatter, fault, initResolved, styleCache, langCache,
                 bibCache, engine, fileCache, bgLoads, citeKeyCache, sched>>

\* The note indices asked for, as the strings the caller passes.
NoteIndices == {"0", "1", "x"}

\* parseInt(index); NaN, which equals no note index, is -1 here.
parseInt(index) ==
  CASE index = "0" -> 0
    [] index = "1" -> 1
    [] OTHER -> -1

\* cache.citations.find(c => c.noteIndex === noteIndex), as the list of
\* matches; find answers undefined when it is empty.
FindNote(citations, noteIndex) ==
  SelectSeq(citations, LAMBDA c : c.noteIndex = noteIndex)

\* What getNoteForNoteIndex answers for the entry it found: reading .note of
\* undefined raises a TypeError.
NoteForNoteIndex(cache, index) ==
  IF ~cache.present THEN [outcome |-> "returned", note |-> None]
  ELSE IF FindNote(cache.citations, parseInt(index)) = << >>
  THEN [outcome |-> "threw", note |-> None]
  ELSE [outcome |-> "returned",
        note |-> Head(FindNote(cache.citations, parseInt(index))).note]

getNoteForNoteIndex(f, index) ==
  /\ lru' = LruGet(lru, fileCache, f)
  /\ last' = [valid |-> FALSE, query |-> "note", path |-> f,
              index |-> index,
              result |-> NoteForNoteIndex(fileCache[f], index)]
  /\ UNCHANGED <<cfg, frontmatter, fault, initResolved, styleCache, langCache,
                 bibCache, engine, fileCache, bgLoads, citeKeyCache, sched>>

NextQuery ==
  \/ \E f \in Docs, content \in Texts :
       \E outcome \in Outcomes : Resolve(f, content, outcome)
  \/ \E clearCache \in BOOLEAN : Reinit(clearCache)
  \/ \E d \in Docs, fm \in FmChoices : EditFrontmatter(d, fm)
  \/ \E path \in QueryPaths, key \in QueryKeys : getResolution(path, key)
  \/ \E path \in QueryPaths, sections \in SectionLayouts :
       \E ln \in QueryLines :
         getCitationsForSection(path, sections, ln[1], ln[2])
  \/ \E f \in Docs, index \in NoteIndices : getNoteForNoteIndex(f, index)

SpecQuery == InitNotify /\ [][NextQuery]_vars

----------------------------------------------------------------------------
(* The editor extension: the decorations citeKeyPlugin builds for a view.   *)

\* The segments of one bracketed citation: "[", then "@" and the key of each
\* cited id with ";" between two of them, then "]".
RECURSIVE KeySegments(_)
KeySegments(ids) ==
  IF ids = << >> THEN << >>
  ELSE << [type |-> "at", val |-> "@"], [type |-> "key", val |-> Head(ids)] >>
       \o (IF Tail(ids) = << >> THEN << >>
           ELSE << [type |-> "separator", val |-> ";"] >>)
       \o KeySegments(Tail(ids))

MatchSegments(ids) ==
  << [type |-> "bracket", val |-> "["] >> \o KeySegments(ids)
     \o << [type |-> "bracket", val |-> "]"] >>

\* A match whose first character is at offset base; every segment is one
\* character wide.
MatchAt(segs, base) ==
  [k \in DOMAIN segs |->
     [type |-> segs[k].type, val |-> segs[k].val,
      from |-> base + k - 1, to |-> base + k]]

\* getCitationSegments(range): one match per citation of the text, in source
\* order, a blank between two matches.
RECURSIVE MatchesFrom(_, _)
MatchesFrom(content, base) ==
  IF content = << >> THEN << >>
  ELSE << MatchAt(MatchSegments(Head(content)), base) >>
       \o MatchesFrom(Tail(content), base + Len(MatchSegments(Head(content))) + 1)

getCitationSegments(content) == MatchesFrom(content, 0)

\* onlyValType(segs)
onlyValType(segs) ==
  [k \in DOMAIN segs |-> [type |-> segs[k].type, val |-> segs[k].val]]

\* The data of a rendered citation: the segments it was parsed from.
CitationData(c) == MatchSegments(c.ids)

\* The token classes a syntax node can carry.
NodeClasses ==
  {"inline-code", "math", "templater-command", "hashtag", "link", "strong"}

\* ignoreListRegEx.test(nodeProps): /code|math|templater|hashtag/
ignoreListRegEx(nodeProps) ==
  nodeProps \in {"inline-code", "math", "templater-command", "hashtag"}

\* The syntax trees of a view: no classed node, or one node of some class.
SpanRanges == {<<0, 4>>, <<2, 3>>, <<5, 9>>, <<0, 7>>}

Trees ==
  {[class |-> None, from |-> 0, to |-> 0]}
    \cup {[class |-> cl, from |-> sp[1], to |-> sp[2]] :
            cl \in NodeClasses, sp \in SpanRanges}

\* tree.resolveInner(pos, 1).type.prop(tokenClassNodeProp)
nodeProps(tree, pos) ==
  IF tree.class # None /\ tree.from <= pos /\ pos < tree.to
  THEN tree.class
  ELSE None

\* The selections of a view: its one range.
Selections == {[from |-> 0, to |-> 0], [from |-> 6, to |-> 8]}

\* The test of lines 164-172 for one selection range.
SelectionApart(r, start, end) ==
  /\ ~(start >= r.from /\ end <= r.to)
  /\ ~(\/ (r.from >= start /\ r.from <= end)
       \/ (r.to >= start /\ r.to <= end))

\* citekeyCache?.citations.find(...): the cached citations with the data of
\* the match.
RenderedFor(field, match) ==
  IF ~field.present THEN << >>
  ELSE SelectSeq(field.citations,
                 LAMBDA c : onlyValType(CitationData(c)) = onlyValType(match))

\* Whether the match is replaced by the widget of its rendered citation.
Widget(field, tree, selection, isLivePreview, match) ==
  /\ isLivePreview
  /\ RenderedFor(field, match) # << >>
  /\ SelectionApart(selection, match[1].from, match[Len(match)].to)

\* The segments the loop of lines 180-241 reaches: it breaks at the first one
\* whose node is on the ignore list.
Reached(tree, match) ==
  {k \in DOMAIN match :
     \A j \in 1..k : ~ignoreListRegEx(nodeProps(tree, match[j].from))}

\* The mark of one segment.
Mark(field, tree, match, k) ==
  LET part == match[k]
      props == nodeProps(tree, part.from)
      val == IF part.type = "key" THEN part.val
             ELSE IF part.type = "at" /\ k < Len(match) THEN match[k + 1].val
             ELSE None
  IN [kind |-> "mark", type |-> part.type, from |-> part.from, to |-> part.to,
      resolved |-> field.present /\ val \in field.resolvedKeys,
      unresolved |-> /\ props # "link"
                     /\ field.present
                     /\ val \in field.unresolvedKeys]

\* The decorations of one match.
MatchDeco(field, tree, selection, isLivePreview, match) ==
  IF Widget(field, tree, selection, isLivePreview, match)
  THEN {[kind |-> "widget", type |-> "citation", from |-> match[1].from,
         to |-> match[Len(match)].to,
         resolved |-> TRUE, unresolved |-> FALSE]}
  ELSE {Mark(field, tree, match, k) : k \in Reached(tree, match)}

\* The decorations of the matches of a range.
SegmentsDeco(field, segments, tree, selection, isLivePreview) ==
  UNION {MatchDeco(field, tree, selection, isLivePreview, segments[i]) :
           i \in DOMAIN segments}

\* mkDeco(view): the plugin of the editor showing f rebuilds its decorations;
\* the one visible range of the view is the whole document.
mkDeco(f, text, tree, selection, isLivePreview) ==
  /\ citeKeyCache[f].open
  /\ last' = [valid |-> FALSE, query |-> "deco", path |-> f, text |-> text,
              tree |-> tree, selection |-> selection,
              isLivePreview |-> isLivePreview,
              decorations |-> SegmentsDeco(citeKeyCache[f].value,
                                           getCitationSegments(text), tree,
                                           selection, isLivePreview)]
  /\ UNCHANGED <<cfg, frontmatter, fault, initResolved, styleCache, langCache,
                 bibCache, engine, fileCache, lru, bgLoads, citeKeyCache,
                 sched>>

NextDeco ==
  \/ \E f \in Docs, content \in Texts :
       \E outcome \in Outcomes : Resolve(f, content, outcome)
  \/ \E clearCache \in BOOLEAN : Reinit(clearCache)
  \/ \E f \in Docs, text \in Texts, tree \in Trees :
       \E selection \in Selections, isLivePreview \in BOOLEAN :
         mkDeco(f, text, tree, selection, isLivePreview)

SpecDeco == InitNotify /\ [][NextDeco]_vars

----------------------------------------------------------------------------
(* The manager when every fetch and conversion succeeds.                    *)

NextReady ==
  \/ \E f \in Docs, content \in Texts :
       \E outcome \in Outcomes : Resolve(f, content, outcome)
  \/ \E clearCache \in BOOLEAN : Reinit(clearCache)
  \/ BgLoadFinish
  \/ \E d \in Docs, fm \in FmChoices : EditFrontmatter(d, fm)

SpecReady == Init /\ [][NextReady]_vars

----------------------------------------------------------------------------
(* The manager from construction to destroy().                              *)

\* this.plugin = null
NoPlugin == [null |-> TRUE]

\* destroy(), lines 133-141.
destroy ==
  /\ cfg # NoPlugin
  /\ fileCache' = [d \in DOMAIN fileCache |-> NoEntry]
  /\ lru' = << >>
  /\ langCache' = {}
  /\ styleCache' = {}
  /\ bibCache' = {}
  /\ engine' = NoEngine
  /\ cfg' = NoPlugin
  /\ last' = NoPass
  /\ UNCHANGED <<frontmatter, fault, initResolved, bgLoads, citeKeyCache,
                 sched>>

\* Nothing is asked of a destroyed manager.
NextLifecycle ==
  \/ cfg # NoPlugin /\ Next
  \/ destroy

SpecLifecycle == Init /\ [][NextLifecycle]_vars

----------------------------------------------------------------------------
(* Overlapping loadStyles / loadLangs calls for one id each.  A call tests  *)
(* the cache and, on a miss, awaits the helper, which fetches the document  *)
(* and memoizes it when the fetch answers.                                  *)

LoadKinds == {"style", "lang"}

LoadableIds(kind) ==
  IF kind = "style" THEN {DefaultStyle, AltStyle} ELSE {DefaultLang, AltLang}

\* The cache a load of this kind tests and fills.
LoadCache(kind) ==
  IF kind = "style" THEN styleCache ELSE langCache

\* loadStyles([{id}]) / loadLangs([id]) up to its await: a hit returns at
\* once, a miss calls getCSLStyle / getCSLLocale and waits for it.
LoadStart(l, kind, id) ==
  /\ sched.loads[l].pc = "idle"
  /\ \A k \in LoadIds : k < l => sched.loads[k].pc # "idle"
  /\ sched' = [sched EXCEPT !.loads[l] =
                 [pc |-> IF id \in LoadCache(kind) THEN "done"
                                                   ELSE "fetching",
                  kind |-> kind, id |-> id]]
  /\ last' = NoPass
  /\ UNCHANGED <<cfg, frontmatter, fault, initResolved, styleCache, langCache,
                 bibCache, engine, fileCache, lru, bgLoads, citeKeyCache>>

\* The helper answers: the document is memoized unless the fetch failed.
LoadFinish(l) ==
  /\ sched.loads[l].pc = "fetching"
  /\ sched' = [sched EXCEPT !.loads[l].pc = "done"]
  /\ styleCache' = IF sched.loads[l].kind = "style"
                   THEN getCSLStyle(styleCache, sched.loads[l].id, None,
                                    fault).cache
                   ELSE styleCache
  /\ langCache' = IF sched.loads[l].kind = "lang"
                  THEN getCSLLocale(langCache, sched.loads[l].id, fault).cache
                  ELSE langCache
  /\ last' = NoPass
  /\ UNCHANGED <<cfg, frontmatter, fault, initResolved, bibCache, engine,
                 fileCache, lru, bgLoads, citeKeyCache>>

NextLoads ==
  \/ \E l \in LoadIds, kind \in LoadKinds :
       \E id \in LoadableIds(kind) : LoadStart(l, kind, id)
  \/ \E l \in LoadIds : LoadFinish(l)
  \/ \E x \in Faults : SetFault(x)

SpecLoads == InitSettings /\ [][NextLoads]_vars

----------------------------------------------------------------------------
(* Overlapping calls.  getReferenceList suspends at the await of            *)
(* initPromise (line 443) and, when it does not reuse the cached scope, at  *)
(* the await of loadScopedEngine (line 475); reinit suspends at its global  *)
(* load (lines 148-152).  The plugin's own initPromise (line 442) is not   *)
(* in the source: it is taken to be resolved once the manager's first load *)
(* has been started, and that first load is the first reinit here.         *)

CallTexts == { << >>, << <<"a">> >>, << <<"a">>, <<"b">> >> }

\* Whether the promise numbered g has been resolved: it is the current one
\* and resolved, or it was resolved before reinit replaced it.
PromiseResolved(g) ==
  \/ g \in sched.settled
  \/ g = sched.promise /\ initResolved

\* Continuations of one promise run in the order the awaits were made: call
\* c resumes from line 443 once its promise is resolved and no earlier call
\* still waits on the same promise.
Resumes(c) ==
  /\ sched.calls[c].pc = "init"
  /\ PromiseResolved(sched.calls[c].awaits)
  /\ \A b \in CallIds :
       b < c /\ sched.calls[b].pc = "init"
         => sched.calls[b].awaits # sched.calls[c].awaits

\* No continuation is queued.  What a call or reinit awaits beyond
\* initPromise answers only after the continuations queued before it ran.
Quiet == \A b \in CallIds : ~Resumes(b)

InFlight == {b \in CallIds : sched.calls[b].pc \notin {"idle", "done"}}

\* getReferenceList(file, content) is called and reaches line 443.
CallStart(c, f, content) ==
  /\ sched.promise > 0
  /\ sched.calls[c].pc = "idle"
  /\ \A b \in CallIds : b < c => sched.calls[b].pc # "idle"
  /\ sched' = [sched EXCEPT !.calls[c] =
                 [NoCall EXCEPT !.pc = "init", !.file = f,
                                !.content = content,
                                !.awaits = sched.promise,
                                !.overlap = InFlight,
                                !.during = sched.reinits]]
  /\ last' = NoPass
  /\ UNCHANGED <<cfg, frontmatter, fault, initResolved, styleCache, langCache,
                 bibCache, engine, fileCache, lru, bgLoads, citeKeyCache>>

\* Line 448: nothing cited.
CallReturnEmpty(c) ==
  /\ Resumes(c)
  /\ Len(Processed(sched.calls[c].content)) = 0
  /\ sched' = [sched EXCEPT !.calls[c].pc = "done"]
  /\ last' = NoPass
  /\ UNCHANGED <<cfg, frontmatter, fault, initResolved, styleCache, langCache,
                 bibCache, engine, fileCache, lru, bgLoads, citeKeyCache>>

\* The rest of the pass, from line 477: r is what it answered.
CallCommit(c, r) ==
  /\ PassEffects(sched.calls[c].file, sched.calls[c].content, "ok", r)
  /\ sched' = [sched EXCEPT !.calls[c].pc = "done",
                            !.calls[c].result =
                              IF r.store THEN r.entry ELSE NoEntry]

\* Lines 445-475 with the cached scope reused: the pass runs to its end.
CallReuse(c) ==
  /\ Resumes(c)
  /\ Len(Processed(sched.calls[c].content)) # 0
  /\ ReuseSource(fileCache[sched.calls[c].file],
                 areSettingsEqual(
                   getScopedSettings(frontmatter[sched.calls[c].file]),
                   fileCache[sched.calls[c].file]))
  /\ CallCommit(c, ResolvePass(sched.calls[c].file, sched.calls[c].content,
                               "ok"))

\* Lines 445-475 otherwise: the call keeps what it read and awaits
\* loadScopedEngine.
CallAwaitScope(c) ==
  /\ Resumes(c)
  /\ Len(Processed(sched.calls[c].content)) # 0
  /\ ~ReuseSource(fileCache[sched.calls[c].file],
                  areSettingsEqual(
                    getScopedSettings(frontmatter[sched.calls[c].file]),
                    fileCache[sched.calls[c].file]))
  /\ sched' = [sched EXCEPT
                 !.calls[c].pc = "load",
                 !.calls[c].cachedDoc = fileCache[sched.calls[c].file],
                 !.calls[c].settings =
                   getScopedSettings(frontmatter[sched.calls[c].file])]
  /\ lru' = LruGet(lru, fileCache, sched.calls[c].file)
  /\ last' = NoPass
  /\ UNCHANGED <<cfg, frontmatter, fault, initResolved, styleCache, langCache,
                 bibCache, engine, fileCache, bgLoads, citeKeyCache>>

\* loadScopedEngine answers and the pass runs to its end with the entry and
\* the settings it read before the await.
CallFinish(c) ==
  /\ sched.calls[c].pc = "load"
  /\ Quiet
  /\ CallCommit(c, ResolveCompared("ok", sched.calls[c].cachedDoc,
                                   sched.calls[c].settings,
                                   areSettingsEqual(sched.calls[c].settings,
                                                    sched.calls[c].cachedDoc),
                                   FALSE,
                                   Processed(sched.calls[c].content)))

\* reinit(clearCache) up to its await: lines 144-146.
ReinitBegin(clearCache) ==
  /\ sched.promise < MaxPromises
  /\ Cardinality(sched.reinits) < MaxReinits
  /\ sched' = [sched EXCEPT
                 !.promise = sched.promise + 1,
                 !.settled = IF initResolved
                             THEN sched.settled \cup {sched.promise}
                             ELSE sched.settled,
                 !.reinits = sched.reinits \cup {sched.promise + 1}]
  /\ initResolved' = FALSE
  /\ fileCache' = [d \in Docs |-> NoEntry]
  /\ lru' = << >>
  /\ bibCache' = IF clearCache THEN {} ELSE bibCache
  /\ last' = NoPass
  /\ UNCHANGED <<cfg, frontmatter, fault, styleCache, langCache, engine,
                 bgLoads, citeKeyCache>>

\* reinit after its await: r is what the global load answered.  A load that
\* rejects leaves this.initPromise as it is (line 154 is not reached).
ReinitFinish(n, r) ==
  /\ bgLoads + r.bg <= MaxBgLoads
  /\ initResolved' = (initResolved \/ r.resolved)
  /\ bibCache' = r.bib
  /\ styleCache' = r.sc
  /\ langCache' = r.lc
  /\ engine' = r.engine
  /\ bgLoads' = bgLoads + r.bg
  /\ sched' = [sched EXCEPT !.reinits = sched.reinits \ {n}]
  /\ last' = NoPass
  /\ UNCHANGED <<cfg, frontmatter, fault, fileCache, lru, citeKeyCache>>

ReinitEnd ==
  /\ Quiet
  /\ \E n \in sched.reinits :
       ReinitFinish(n, IF cfg.pullFromZotero THEN loadGlobalZBib(bibCache)
                                             ELSE loadGlobalBibFile(bibCache))

CallRun(c) ==
  CallReturnEmpty(c) \/ CallReuse(c) \/ CallAwaitScope(c)

NextCalls ==
  \/ \E c \in CallIds, f \in Docs, content \in CallTexts :
       CallStart(c, f, content)
  \/ \E c \in CallIds : CallRun(c)
  \/ \E c \in CallIds : CallFinish(c)
  \/ \E clearCache \in BOOLEAN : ReinitBegin(clearCache)
  \/ ReinitEnd
  \/ BgLoadFinish
  \/ \E x \in Faults : SetFault(x)

\* Promise continuations and pending loads are run by the event loop: a call
\* that can take its next step takes it, and a started load answers.
CallsFairness ==
  /\ \A c \in CallIds : WF_vars(CallRun(c)) /\ WF_vars(CallFinish(c))
  /\ WF_vars(ReinitEnd)
  /\ WF_vars(BgLoadFinish)

SpecCalls == Init /\ [][NextCalls]_vars /\ CallsFairness

----------------------------------------------------------------------------
(* Claims *)

\* The ids a text cites.
Cited(content) == CiteKeys(Processed(content))

\* The document's entry is the all-unresolved fallback for a text.
AllUnresolved(e, content) ==
  /\ e.present
  /\ e.resolvedKeys = {}
  /\ e.unresolvedKeys = Cited(content)
  /\ e.citations = << >>
  /\ e.bib = NullBib

\* A step that is a resolve pass of the document of the pass before it, with
\* nothing in between but (if the history says so) one style-only edit.
NextPass ==
  /\ last.valid
  /\ last'.valid
  /\ ~last'.edited
  /\ last'.file = last.file

\* C1: every Resolution Result in the cache has resolvedKeys and
\* unresolvedKeys partitioning keys.
C1_Partition ==
  \A d \in Docs :
    fileCache[d].present =>
      /\ fileCache[d].resolvedKeys \cup fileCache[d].unresolvedKeys
           = fileCache[d].keys
      /\ fileCache[d].resolvedKeys \cap fileCache[d].unresolvedKeys = {}

\* C2: a pass whose scope has no usable engine stores a result with empty
\* resolvedKeys, every cited key of the text in unresolvedKeys, no citations
\* and no bibliography.
C2_NoEngineAllUnresolved ==
  (last.valid /\ last.path = "noEngine") =>
    AllUnresolved(fileCache[last.file], last.content)

\* C3: a pass whose scope construction failed (style load, locale load or
\* bibliography conversion) returns without an exception and yields a result
\* with every cited key unresolved, no citations and no bibliography.
C3_ScopeFailureAllUnresolved ==
  (last.valid /\ last.loadFailed) =>
    /\ last.outcome = "returned"
    /\ last.ret = NullBib
    /\ AllUnresolved(fileCache[last.file], last.content)

\* C4: when the engine raises while rendering citations or the bibliography,
\* the pass does not throw and produces the all-unresolved fallback.
C4_RenderFailureFallsBack ==
  (last.valid /\ last.path \in {"citeThrew", "bibThrew"}) =>
    /\ last.outcome = "returned"
    /\ AllUnresolved(fileCache[last.file], last.content)

\* A pass r over a text handed the engine only groups within the scope's
\* bibliography lookup, and a result it rendered classifies every cited id.
RendersOnlyResolved(content, r) ==
  /\ r.citeCalled =>
       \A i \in DOMAIN r.rendered :
         Range(r.rendered[i].ids) \subseteq r.scopeBib
  /\ r.path \in {"stored", "emptyBib"} =>
       /\ r.entry.resolvedKeys = Cited(content) \cap r.scopeBib
       /\ r.entry.unresolvedKeys = Cited(content) \ r.scopeBib

\* C5: the engine is asked to render only groups all of whose ids are in the
\* scope's bibliography lookup; the ids of the other groups are still
\* classified; every id of every rendered citation of a cached result is in
\* its resolvedKeys.
C5_OnlyResolvedRendered ==
  /\ \A d \in Docs :
       fileCache[d].present =>
         \A i \in DOMAIN fileCache[d].citations :
           Range(fileCache[d].citations[i].ids) \subseteq fileCache[d].resolvedKeys
  /\ \A f \in Docs, content \in Texts, outcome \in Outcomes :
       RendersOnlyResolved(content, ResolvePass(f, content, outcome))

\* A pass that stored a result for a text with a group left out of rendering
\* because one member is unresolved, while another member is resolved.
C5_Witness ==
  /\ last.valid
  /\ last.path = "stored"
  /\ fileCache[last.file].resolvedKeys # {}
  /\ fileCache[last.file].unresolvedKeys # {}
  /\ Len(fileCache[last.file].citations) < Len(last.content)

\* C6: after every pass that ran to completion the document has a cache
\* entry whose keys is exactly the set of ids cited in the text just resolved.
C6_EntryTracksText ==
  (last.valid /\ last.outcome = "returned") =>
    /\ fileCache[last.file].present
    /\ fileCache[last.file].keys = Cited(last.content)

\* C7: a second resolve of the same document with unchanged text, settings
\* and bibliography returns the identical bibliography object.
C7_RepeatReturnsSameObject ==
  [][(/\ NextPass
      /\ ~last.edited
      /\ last'.content = last.content
      /\ last.outcome = "returned"
      /\ last'.outcome = "returned")
     => last'.ret = last.ret]_vars

\* A repeated pass that returned the (non-null) bibliography object the
\* cache held.
C7_Witness ==
  /\ last.valid
  /\ last.repeat
  /\ last.outcome = "returned"
  /\ last.ret.obj # 0
  /\ last.ret = fileCache[last.file].bib

\* C8 as stated: a second resolve with unchanged text and settings calls
\* neither citation rendering nor bibliography rendering.
C8_RepeatCallsNoEngine ==
  [][(/\ NextPass
      /\ ~last.edited
      /\ last'.content = last.content)
     => (~last'.citeCalled /\ ~last'.bibCalled)]_vars

\* C8 as amended: a second resolve with unchanged text and settings, after a
\* pass that stored its rendered result or was change-suppressed, renders the
\* citations again but neither renders the bibliography nor builds a scope.
C8_RepeatSkipsBibliography ==
  [][(/\ NextPass
      /\ ~last.edited
      /\ last'.content = last.content
      /\ last.path \in {"stored", "suppressed"})
     => (/\ last'.citeCalled
         /\ ~last'.bibCalled
         /\ ~last'.loaded
         /\ ~last'.built)]_vars

\* A repeated pass that rendered citations and skipped the bibliography.
C8_Witness ==
  /\ last.valid
  /\ last.repeat
  /\ last.path = "suppressed"
  /\ last.citeCalled
  /\ ~last.bibCalled

\* C9: a resolve after a content edit with unchanged scope settings, for a
\* document that has a cache entry, loads no scope and builds no engine.
C9_ContentEditReusesScope ==
  [][(/\ NextPass
      /\ ~last.edited
      /\ last'.content # last.content
      /\ last'.content # << >>
      /\ fileCache[last.file].present)
     => (~last'.loaded /\ ~last'.built)]_vars

\* C10: when only the declared style override changed since the last resolve
\* (same text), the pass does not take its scope from the cache entry, and
\* with a style override declared and loadable it builds a new engine.
C10_StyleChangeRebuildsScope ==
  [][(/\ NextPass
      /\ last.edited
      /\ last'.content = last.content
      /\ last'.content # << >>
      /\ fault = "none")
     => (/\ last'.loaded
         /\ (getScopedSettings(frontmatter[last.file]).style # None
               => last'.built))]_vars

\* The document a step used: the one a pass read or wrote, or the one
\* getCacheForPath read; 0 if the step used none.
UsedDoc(h) ==
  IF h.valid THEN (IF h.path = "empty" \/ h.edited THEN 0 ELSE h.file)
  ELSE IF "read" \in DOMAIN h THEN h.read ELSE 0

\* C11: the cache never holds more than CacheMax entries; an entry leaves it
\* only when a document that had none is written into the full cache, and the
\* one that leaves is the least recently used; the document a step reads or
\* writes becomes the most recently used and the order of the others stays.
C11_LruEviction ==
  [][LET f == UsedDoc(last')
         gone == Cached \ Cached'
     IN /\ Cardinality(Cached') <= CacheMax
        /\ Range(lru') = Cached'
        /\ Len(lru') = Cardinality(Cached')
        /\ gone # {} =>
             /\ gone = {Head(lru)}
             /\ Cardinality(Cached) = CacheMax
             /\ f \in Cached' \ Cached
        /\ (f \in Cached' \ Cached /\ Cardinality(Cached) = CacheMax) =>
             gone = {Head(lru)}
        /\ f \in Cached' => lru'[Len(lru')] = f
        /\ SelectSeq(lru', LAMBDA x : x # f)
             = SelectSeq(lru, LAMBDA x : x # f /\ x \in Cached')]_vars

\* The twelfth document was written into the full cache after document 1 had
\* been used again: document 2, not document 1, was evicted.
C11_Witness ==
  /\ Cardinality(Cached) = CacheMax
  /\ fileCache[1].present
  /\ ~fileCache[2].present
  /\ fileCache[CacheMax + 1].present

\* C12: a pass notifies the document's editor exactly when it writes the
\* cache, with exactly the entry it stored; the editor's field holds the
\* notified result, and no other step changes the field.
C12_NotifyOnWrite ==
  [][IF last'.valid /\ ~last'.edited
     THEN /\ last'.wrote <=> last'.notified.present
          /\ last'.wrote => fileCache'[last'.file] = last'.notified
          /\ ~last'.wrote => fileCache' = fileCache
          /\ citeKeyCache'[last'.file].value =
               IF last'.notified.present /\ citeKeyCache[last'.file].open
               THEN last'.notified
               ELSE citeKeyCache[last'.file].value
     ELSE citeKeyCache' = citeKeyCache]_vars

\* A pass stored a rendered bibliography and the editor's field holds that
\* entry.
C12_Witness ==
  /\ last.valid
  /\ last.wrote
  /\ last.notified.bib.obj # 0
  /\ citeKeyCache[last.file].value = last.notified
  /\ fileCache[last.file] = last.notified

\* C13: when a call completes after a call for the same document that it
\* overlapped, the document's cache entry is the result the completing call
\* computed.
C13_LaterCallWins ==
  [][\A c \in CallIds, o \in CallIds :
       (/\ sched.calls[c].pc # "done"
        /\ sched'.calls[c].pc = "done"
        /\ sched'.calls[o].pc = "done"
        /\ sched'.calls[o].file = sched'.calls[c].file
        /\ o \in sched'.calls[c].overlap \/ c \in sched'.calls[o].overlap)
       => fileCache'[sched'.calls[c].file] = sched'.calls[c].result]_vars

\* C14: every call that was made completes.
C14_EveryCallCompletes ==
  \A c \in CallIds :
    (sched.calls[c].pc # "idle") ~> (sched.calls[c].pc = "done")

\* C15: a pass for a document with scope overrides leaves the manager's
\* engine, bibliography lookup and search index as they were, and a scope
\* with an override bibliography holds that bibliography in a map of its own.
C15_ScopedPassKeepsGlobals ==
  [][(/\ last'.valid
      /\ ~last'.edited
      /\ ~getScopedSettings(frontmatter[last'.file]).null)
     => /\ bibCache' = bibCache
        /\ engine' = engine
        /\ last'.thisFuse = ThisFuse
        /\ (/\ last'.built
            /\ last'.wrote
            /\ getScopedSettings(frontmatter[last'.file]).bibliography # None)
           => /\ fileCache'[last'.file].source.kind = "scoped"
              /\ fileCache'[last'.file].source.bib = AltBib]_vars

\* A pass stored a scope built from an override bibliography that differs
\* from the manager's.
C15_Witness ==
  /\ last.valid
  /\ ~last.edited
  /\ last.built
  /\ last.wrote
  /\ getScopedSettings(frontmatter[last.file]).bibliography # None
  /\ fileCache[last.file].source.kind = "scoped"
  /\ fileCache[last.file].source.bib # bibCache
  /\ bibCache # {}

\* The three fields of a settings value, null settings being all absent.
FieldsOf(settings) ==
  IF settings.null THEN <<None, None, None>>
  ELSE <<settings.bibliography, settings.style, settings.lang>>

\* The frontmatter declares none of the three fields once trimmed.
DeclaresNone(fm) ==
  \/ ~fm.present
  \/ /\ fm.bibliography \in Blank \cup {None}
     /\ fm.style \in Blank \cup {None}
     /\ fm.lang \in Blank \cup {None}

\* C16: the settings comparison is true exactly when the three fields of the
\* document's settings match those stored in its cache entry, null settings
\* (and no entry) counting as all three absent; frontmatter that declares
\* none of the three after trimming gives null settings.
C16_SettingsComparison ==
  ("equal" \in DOMAIN last)
    => /\ last.equal <=>
            (FieldsOf(last.settings) =
               IF fileCache[last.file].present
               THEN FieldsOf(fileCache[last.file].settings)
               ELSE <<None, None, None>>)
       /\ DeclaresNone(frontmatter[last.file]) => last.settings.null
       /\ last.settings.null => DeclaresNone(frontmatter[last.file])

\* Padded frontmatter compared equal to an entry stored with settings.
C16_Witness ==
  /\ "equal" \in DOMAIN last
  /\ last.equal
  /\ fileCache[last.file].present
  /\ ~fileCache[last.file].settings.null
  /\ frontmatter[last.file].bibliography = " alt.bib "
  /\ frontmatter[last.file].lang = " "

\* C17: getResolution reports both flags false for a path without a cache
\* entry, and never reports both true.
C17_ResolutionFlags ==
  ("query" \in DOMAIN last /\ last.query = "resolution")
    => /\ ~QueryCache(last.path).present
            => ~last.result.isResolved /\ ~last.result.isUnresolved
       /\ ~(last.result.isResolved /\ last.result.isUnresolved)

\* A key reported resolved in an entry that also holds an unresolved key.
C17_Witness ==
  /\ "query" \in DOMAIN last
  /\ last.query = "resolution"
  /\ last.result.isResolved
  /\ QueryCache(last.path).unresolvedKeys # {}

\* Whether section x has the given lines.
HasLines(x, lineStart, lineEnd) ==
  x.startLine = lineStart /\ x.endLine = lineEnd

C19_StyleLocaleCachesKept ==
  [][IF cfg' = NoPlugin
     THEN styleCache' = {} /\ langCache' = {}
     ELSE styleCache \subseteq styleCache' /\ langCache \subseteq langCache']_vars

\* After a reinit that cleared the bibliography lookup and the document's
\* entry, the caches still hold the global style and the style and locale
\* that a scoped resolve loaded.
C19_Witness ==
  /\ cfg # NoPlugin
  /\ initResolved
  /\ \A d \in Docs : ~fileCache[d].present
  /\ bibCache = {}
  /\ DefaultStyle \in styleCache
  /\ AltStyle \in styleCache
  /\ AltLang \in langCache

\* C20: two loads of one style id, or of one locale id, never both have a
\* fetch of their own in flight.
C20_NoDuplicateFetch ==
  \A l1 \in LoadIds, l2 \in LoadIds :
    (/\ l1 # l2
     /\ sched.loads[l1].pc = "fetching"
     /\ sched.loads[l2].pc = "fetching"
     /\ sched.loads[l1].kind = sched.loads[l2].kind)
    => sched.loads[l1].id # sched.loads[l2].id

\* C21: a call made while reinits were in progress leaves the await of
\* initPromise only after every one of those reinits has finished.
C21_GateWaitsForReinits ==
  [][\A c \in CallIds :
       (sched.calls[c].pc = "init" /\ sched'.calls[c].pc # "init")
         => sched.calls[c].during \cap sched.reinits = {}]_vars

\* C22: with a bibliography source configured and nothing failing to load,
\* the global engine is built whenever the readiness gate is open, and a pass
\* over a document without overrides does not take the no-engine path.
C22_EngineBuiltAtGate ==
  (initResolved /\ cfg.hasSource /\ fault = "none")
    => /\ engine.built
       /\ (/\ last.valid
           /\ ~last.edited
           /\ getScopedSettings(frontmatter[last.file]).null)
          => last.path # "noEngine"

\* C23: getNoteForNoteIndex raises nothing; it returns the note of the cached
\* citation with the given note index, and null without an entry, without
\* such a citation, or when that citation has no note.
C23_NoteOrNull ==
  ("query" \in DOMAIN last /\ last.query = "note")
    => /\ last.result.outcome = "returned"
       /\ last.result.note =
            IF /\ fileCache[last.path].present
               /\ \E i \in DOMAIN fileCache[last.path].citations :
                    fileCache[last.path].citations[i].noteIndex =
                      parseInt(last.index)
            THEN LET i == CHOOSE j \in DOMAIN fileCache[last.path].citations :
                            /\ fileCache[last.path].citations[j].noteIndex =
                                 parseInt(last.index)
                            /\ \A k \in 1..(j - 1) :
                                 fileCache[last.path].citations[k].noteIndex #
                                   parseInt(last.index)
                 IN fileCache[last.path].citations[i].note
            ELSE None

\* The segments of the matches of the view that lie inside a span on the
\* ignore list.
IgnoredSegments ==
  {seg \in UNION {Range(m) : m \in Range(getCitationSegments(last.text))} :
     /\ ignoreListRegEx(last.tree.class)
     /\ last.tree.from <= seg.from
     /\ seg.to <= last.tree.to}

\* C24: no decoration, mark or widget, covers a segment of a match that lies
\* inside a code, math, templater or hashtag span, in either mode.
C24_NoDecorationInIgnoredSpan ==
  ("query" \in DOMAIN last /\ last.query = "deco")
    => \A seg \in IgnoredSegments, d \in last.decorations :
         ~(d.from <= seg.from /\ seg.to <= d.to)

\* C24, source mode only: the marks stop at the first ignored segment.
C24_SourceModeSkipsIgnored ==
  ("query" \in DOMAIN last /\ last.query = "deco" /\ ~last.isLivePreview)
    => \A seg \in IgnoredSegments, d \in last.decorations :
         ~(d.from <= seg.from /\ seg.to <= d.to)

============================================================================
